---- MODULE Spec2Model ----
(***************************************************************************)
(* The in-call screen of the mobile client (the Conference component), in  *)
(* its two variants:                                                       *)
(*   "Conference.js"  src/react/features/conference/components/native/     *)
(*                    Conference.js                                        *)
(*   "part_000"       src/unnamed/part_000                                 *)
(*                                                                         *)
(* Two state machines share the module.                                    *)
(*   SpecPure  the pure pipeline  store state -> _mapStateToProps ->       *)
(*             _renderContent, over every store state and both variants.   *)
(*   Spec      the life of Conference instances of Conference.js:          *)
(*             constructor, componentDidMount, taps, hardware back         *)
(*             presses, the picture-in-picture promise and its catch       *)
(*             reaction, componentWillUnmount.                             *)
(***************************************************************************)
EXTENDS Integers, Sequences, FiniteSets, TLC

VARIABLES
    variant,     \* which source file's Conference is running
    state,       \* the redux store state (the slices the component reads)
    props,       \* SpecPure: the props _mapStateToProps derived
    rendered,    \* SpecPure: what render() returned (or that it threw)
    pc,          \* SpecPure: position in the pipeline
    comp,        \* Spec: per instance: lifecycle phase, bound handler, props
    registry,    \* Spec: BackButtonRegistry._listeners
    requests,    \* Spec: one promise record per hardware back press
    microtasks,  \* Spec: promise reaction jobs not yet run
    dispatched   \* Spec: the redux actions dispatched by the last handler run

vars == <<variant, state, props, rendered, pc,
          comp, registry, requests, microtasks, dispatched>>

pureVars == <<props, rendered, pc>>
lifeVars == <<comp, registry, requests, microtasks, dispatched>>

-----------------------------------------------------------------------------
(* JavaScript values: records tagged with their kind, so that primitives   *)
(* and React elements can sit in the same child list.                      *)

Prim(kind, v) == [kind |-> kind, v |-> v]

Undefined == Prim("undefined", "undefined")
Null      == Prim("null", "null")
JsTrue    == Prim("boolean", "true")
JsFalse   == Prim("boolean", "false")
Str(s)    == Prim("string", s)
Obj(name) == Prim("object", name)

\* ToBoolean of the language: undefined, null, false and "" are falsy.
Truthy(x) ==
    ~ \/ x.kind \in {"undefined", "null"}
      \/ (x.kind = "boolean" /\ x.v = "false")
      \/ (x.kind = "string" /\ x.v = "")

\* Boolean(x)
Boolean(x) == IF Truthy(x) THEN JsTrue ELSE JsFalse

\* a || b, a && b, !a, a === b, c ? a : b   (value semantics: || and &&
\* yield one of their operands, not a boolean)
JsOr(a, b)  == IF Truthy(a) THEN a ELSE b
JsAnd(a, b) == IF Truthy(a) THEN b ELSE a
JsNot(a)    == IF Truthy(a) THEN JsFalse ELSE JsTrue
JsStrictEq(a, b) == IF a = b THEN JsTrue ELSE JsFalse
JsCond(c, a, b)  == IF Truthy(c) THEN a ELSE b

\* A React element <type props>children</type>.
Element(type, ps, children) ==
    [kind |-> "element", v |-> type, props |-> ps, children |-> children]

Fragment(children) == Element("Fragment", {}, children)

-----------------------------------------------------------------------------
(* The redux store state.  The slices are those _mapStateToProps reads;    *)
(* the selectors of other features are read through the fields holding     *)
(* their results.                                                          *)

Variants == {"Conference.js", "part_000"}

ConnectingValues     == {Undefined, JsFalse, JsTrue}
ConnectionValues     == {Undefined, Obj("connection")}
ConferenceValues     == {Null, Str("room1")}
JoiningValues        == {Undefined, JsTrue}
MembersOnlyValues    == {Undefined, JsTrue}
LeavingValues        == {JsFalse, JsTrue}
JsBooleans           == {JsFalse, JsTrue}
ConferenceNames      == {Str("room1"), Str("toolbox"), Str("toolbox_disabled")}
AspectRatios         == {Str("narrow"), Str("wide")}

StoreStates ==
    [ connecting       : ConnectingValues,
      connection       : ConnectionValues,
      conference       : ConferenceValues,
      joining          : JoiningValues,
      membersOnly      : MembersOnlyValues,
      leaving          : LeavingValues,
      aspectRatio      : AspectRatios,
      reducedUI        : JsBooleans,
      participantId    : {Str("p1")},
      filmstripVisible : JsBooleans,
      toolboxVisible   : JsBooleans,
      pipEnabled       : JsBooleans,
      conferenceName   : ConferenceNames,
      tileView         : JsBooleans,
      calendarEnabled  : {JsFalse} ]

\* Selectors of collaborating features.
isFilmstripVisible(s) == s.filmstripVisible
isToolboxVisible(s)   == s.toolboxVisible
isCalendarEnabled(s)  == s.calendarEnabled
getConferenceName(s)  == s.conferenceName
getFeatureFlag(s, flag) ==
    IF flag = "PIP_ENABLED" THEN s.pipEnabled ELSE Undefined
abstractMapStateToProps(s) == [_shouldDisplayTileView |-> s.tileView]

\* Conference.js: _mapStateToProps.  connecting_ is computed with the
\* language's || and && and then coerced by Boolean().
connecting_IgnoresLeaving(s) ==
    JsOr(s.connecting,
         JsAnd(s.connection,
               JsAnd(JsNot(s.membersOnly),
                     JsOr(s.joining, JsNot(s.conference)))))

connecting_LobbyGateOnJoinOnly(s) ==
    JsOr(s.connecting,
         JsAnd(s.connection,
               JsOr(JsAnd(JsNot(s.membersOnly), s.joining),
                    JsAnd(JsNot(s.conference), JsNot(s.leaving)))))

connecting_OnlyWhileJoining(s) ==
    JsOr(s.connecting,
         JsAnd(s.connection, JsAnd(JsNot(s.membersOnly), s.joining)))

connecting_(s) ==
    JsOr(s.connecting,
         JsAnd(s.connection,
               JsAnd(JsNot(s.membersOnly),
                     JsOr(s.joining,
                          JsAnd(JsNot(s.conference), JsNot(s.leaving))))))

_mapStateToProps(s) ==
    [ _shouldDisplayTileView   |-> abstractMapStateToProps(s)._shouldDisplayTileView,
      _aspectRatio             |-> s.aspectRatio,
      _calendarEnabled         |-> isCalendarEnabled(s),
      _connecting              |-> Boolean(connecting_(s)),
      _filmstripVisible        |-> isFilmstripVisible(s),
      _largeVideoParticipantId |-> s.participantId,
      _pictureInPictureEnabled |-> getFeatureFlag(s, "PIP_ENABLED"),
      _toolboxEnabled          |->
          JsCond(JsStrictEq(getConferenceName(s), Str("toolbox_disabled")),
                 JsFalse, JsTrue),
      _reducedUI               |-> s.reducedUI,
      _toolboxVisible          |-> isToolboxVisible(s) ]

\* part_000: _mapStateToProps.  No membersOnly, no _aspectRatio, and the
\* _toolboxEnabled entry is commented out, so those props are undefined.
connecting_part000(s) ==
    JsOr(s.connecting,
         JsAnd(s.connection,
               JsOr(s.joining,
                    JsAnd(JsNot(s.conference), JsNot(s.leaving)))))

_mapStateToProps_part000(s) ==
    [ _shouldDisplayTileView   |-> abstractMapStateToProps(s)._shouldDisplayTileView,
      _aspectRatio             |-> Undefined,
      _calendarEnabled         |-> isCalendarEnabled(s),
      _connecting              |-> Boolean(connecting_part000(s)),
      _filmstripVisible        |-> isFilmstripVisible(s),
      _largeVideoParticipantId |-> s.participantId,
      _pictureInPictureEnabled |-> getFeatureFlag(s, "PIP_ENABLED"),
      _toolboxEnabled          |-> Undefined,
      _reducedUI               |-> s.reducedUI,
      _toolboxVisible          |-> isToolboxVisible(s) ]

mapStateToPropsOf(v, s) ==
    IF v = "Conference.js" THEN _mapStateToProps(s)
                           ELSE _mapStateToProps_part000(s)

NoProps == _mapStateToProps_part000(
    [ connecting |-> Undefined, connection |-> Undefined, conference |-> Undefined,
      joining |-> Undefined, membersOnly |-> Undefined, leaving |-> Undefined,
      aspectRatio |-> Undefined, reducedUI |-> Undefined,
      participantId |-> Undefined, filmstripVisible |-> Undefined,
      toolboxVisible |-> Undefined, pipEnabled |-> Undefined,
      conferenceName |-> Undefined, tileView |-> Undefined,
      calendarEnabled |-> Undefined ])

-----------------------------------------------------------------------------
(* Rendering.  _renderContent returns a fragment, or throws; render()      *)
(* puts the fragment in a Container.                                       *)

OnClickProp == <<"onClick", "this._onClick">>

TileView             == Element("TileView", {OnClickProp}, <<>>)
LargeVideo(ps)       == Element("LargeVideo", ps \cup {OnClickProp}, <<>>)
LoadingIndicator     == Element("LoadingIndicator", {}, <<>>)
TintedView           == Element("TintedView", {}, <<LoadingIndicator>>)
DisplayNameLabel(id) == Element("DisplayNameLabel", {<<"participantId", id.v>>}, <<>>)
Toolbox              == Element("Toolbox", {}, <<>>)
Filmstrip            == Element("Filmstrip", {}, <<>>)
SafeAreaView(children) ==
    Element("SafeAreaView",
            {<<"pointerEvents", "box-none">>,
             <<"style", "styles.toolboxAndFilmstripContainer">>},
            children)

Returned(tree) == [threw |-> FALSE, error |-> "", tree |-> tree]
Threw(error)   == [threw |-> TRUE, error |-> error, tree |-> Undefined]
NotRendered    == [threw |-> FALSE, error |-> "", tree |-> Undefined]

\* _renderContentForReducedUi (the same in both files)
_renderContentForReducedUi(p) ==
    Fragment(<< LargeVideo({}),
                JsAnd(p._connecting, TintedView) >>)

\* Conference.js: the children of the full layout, in document order.
\* Lowermost layer: the video surface.
VideoSurface_TileViewFirst(p) ==
    JsCond(p._shouldDisplayTileView,
           TileView,
           JsCond(p._toolboxEnabled,
                  LargeVideo({<<"whiteback", "false">>}),
                  LargeVideo({<<"whiteback", "true">>})))

VideoSurface(p) ==
    JsCond(p._toolboxEnabled,
           JsCond(p._shouldDisplayTileView,
                  TileView,
                  LargeVideo({<<"whiteback", "false">>})),
           LargeVideo({<<"whiteback", "true">>}))

\* The activity/loading indicator.
LoadingOverlay_IgnoresToolbox(p) == JsAnd(p._connecting, TintedView)

LoadingOverlay(p) ==
    JsAnd(JsAnd(p._toolboxEnabled, p._connecting), TintedView)

\* _shouldDisplayTileView || _toolboxEnabled && <DisplayNameLabel .../>
\* (&& binds tighter than ||).
DisplayNameLabelSlot_Grouped(p) ==
    JsAnd(JsOr(p._shouldDisplayTileView, p._toolboxEnabled),
          DisplayNameLabel(p._largeVideoParticipantId))

DisplayNameLabelSlot(p) ==
    JsOr(p._shouldDisplayTileView,
         JsAnd(p._toolboxEnabled,
               DisplayNameLabel(p._largeVideoParticipantId)))

ToolboxSlot_WhenVisible(p) ==
    JsAnd(JsAnd(p._toolboxEnabled, p._toolboxVisible), Toolbox)

ToolboxSlot(p) == JsAnd(p._toolboxEnabled, Toolbox)

FilmstripSlot_IgnoresTileView(p) == JsAnd(p._toolboxEnabled, Filmstrip)

FilmstripSlot(p) ==
    JsCond(p._shouldDisplayTileView,
           Undefined,
           JsAnd(p._toolboxEnabled, Filmstrip))

FullLayout(p) ==
    Fragment(<< VideoSurface(p),
                LoadingOverlay(p),
                SafeAreaView(<< DisplayNameLabelSlot(p),
                                ToolboxSlot(p),
                                FilmstripSlot(p) >>) >>)

\* Conference.js: _renderContent
_renderContent_NoReducedBranch(p) == Returned(FullLayout(p))

_renderContent(p) ==
    IF Truthy(p._reducedUI)
    THEN Returned(_renderContentForReducedUi(p))
    ELSE Returned(FullLayout(p))

\* part_000: _renderContent.  Every child expression of the full layout
\* starts by evaluating getFeatureFlag(state, "toolbox.enabled"), and no
\* binding of the identifier `state` is in scope in the method or the
\* module: evaluating the first child throws a ReferenceError before any
\* element is created.
_renderContent_part000(p) ==
    IF Truthy(p._reducedUI)
    THEN Returned(_renderContentForReducedUi(p))
    ELSE Threw("ReferenceError: state is not defined")

renderContentOf(v, p) ==
    IF v = "Conference.js" THEN _renderContent(p)
                           ELSE _renderContent_part000(p)

Container(children) ==
    Element("Container", {<<"style", "styles.conference">>}, children)
StatusBar ==
    Element("StatusBar", {<<"barStyle", "light-content">>,
                          <<"hidden", "true">>,
                          <<"translucent", "true">>}, <<>>)

\* Conference.js: render().  An exception of _renderContent leaves render.
render(p) ==
    LET content == _renderContent(p)
    IN  IF content.threw THEN content
        ELSE Returned(Container(<<content.tree>>))

\* part_000: render() puts a StatusBar before the content.
render_part000(p) ==
    LET content == _renderContent_part000(p)
    IN  IF content.threw THEN content
        ELSE Returned(Container(<<StatusBar, content.tree>>))

renderOf(v, p) ==
    IF v = "Conference.js" THEN render(p) ELSE render_part000(p)

\* What React mounts for a value: booleans, null and undefined render
\* nothing; an element renders itself and, inside it, its children.
\* The result lists <<type, props>> in document order.
RECURSIVE Mounts(_)
RECURSIVE MountsAll(_)
MountsAll(children) ==
    IF children = <<>> THEN <<>>
    ELSE Mounts(Head(children)) \o MountsAll(Tail(children))
Mounts(x) ==
    IF x.kind # "element" THEN <<>>
    ELSE (IF x.v = "Fragment" THEN <<>> ELSE << <<x.v, x.props>> >>)
         \o MountsAll(x.children)

\* The components on screen after a render (none when it threw).
Shown(r) == IF r.threw THEN <<>> ELSE Mounts(r.tree)

IsSurfaceType(type) == type \in {"TileView", "LargeVideo"}

Count(seq, type) == Cardinality({i \in DOMAIN seq : seq[i][1] = type})
Has(seq, type)   == Count(seq, type) > 0

-----------------------------------------------------------------------------
(* The life of Conference instances (Conference.js).                       *)

\* Bounds of the lifecycle model.
MaxInstances   == 1   \* Conference instances constructed in one run
MaxBackPresses == 2   \* hardware back presses handled in one run

Inst == 1 .. MaxInstances

\* A function object.  Function.prototype.bind returns a new function on
\* every call; `bind` numbers the bind calls of one method of one instance.
BoundFunction(i, method, n) == [inst |-> i, method |-> method, bind |-> n]
NoFunction == BoundFunction(0, "", 0)

NoComponent ==
    [ phase |-> "none",
      props |-> NoProps,
      onHardwareBackPress |-> NoFunction,   \* this._onHardwareBackPress
      addCalls    |-> <<>>,                 \* arguments it passed to addListener
      removeCalls |-> <<>> ]                \* arguments it passed to removeListener

\* Redux actions and the store's handling of them.
setToolboxVisible(visible) == [type |-> "SET_TOOLBOX_VISIBLE", arg |-> visible]
appNavigate(uri)           == [type |-> "APP_NAVIGATE", arg |-> uri]

reducer(s, a) ==
    IF a.type = "SET_TOOLBOX_VISIBLE"
    THEN [s EXCEPT !.toolboxVisible = a.arg]
    ELSE s

\* connect(): after a store change every live instance gets new props and
\* re-renders; an unmounted instance keeps its last props.
Connected(c, s) ==
    IF c.phase \in {"constructed", "mounted"}
    THEN [c EXCEPT !.props = _mapStateToProps(s)]
    ELSE c

\* BackButtonRegistry: a set of listeners.
addListener(listeners, listener)    == listeners \cup {listener}
removeListener(listeners, listener) == listeners \ {listener}

\* The event loop runs a task (a lifecycle call, an input event, a native
\* callback) only when no promise reaction job is waiting.
TaskMayRun == microtasks = <<>>

\* constructor(props): binds the handlers once.
constructor(i) ==
    /\ TaskMayRun
    /\ comp[i].phase = "none"
    /\ \A j \in Inst : j < i => comp[j].phase # "none"
    /\ comp' = [comp EXCEPT ![i] =
           [ phase |-> "constructed",
             props |-> _mapStateToProps(state),
             onHardwareBackPress |-> BoundFunction(i, "_onHardwareBackPress", 1),
             addCalls |-> <<>>,
             removeCalls |-> <<>> ]]
    /\ dispatched' = <<>>
    /\ UNCHANGED <<variant, state, registry, requests, microtasks>>
    /\ UNCHANGED pureVars

\* componentDidMount(): BackButtonRegistry.addListener(this._onHardwareBackPress)
MountListenerArg(c) == c.onHardwareBackPress

componentDidMount(i) ==
    /\ TaskMayRun
    /\ comp[i].phase = "constructed"
    /\ registry' = addListener(registry, MountListenerArg(comp[i]))
    /\ comp' = [comp EXCEPT ![i].phase = "mounted",
                            ![i].addCalls = Append(@, MountListenerArg(comp[i]))]
    /\ dispatched' = <<>>
    /\ UNCHANGED <<variant, state, requests, microtasks>>
    /\ UNCHANGED pureVars

\* componentWillUnmount(): BackButtonRegistry.removeListener(this._onHardwareBackPress)
UnmountListenerArg_FreshBind(c) ==
    BoundFunction(c.onHardwareBackPress.inst, c.onHardwareBackPress.method,
                  c.onHardwareBackPress.bind + 1)

UnmountListenerArg(c) == c.onHardwareBackPress

componentWillUnmount(i) ==
    /\ TaskMayRun
    /\ comp[i].phase = "mounted"
    /\ registry' = removeListener(registry, UnmountListenerArg(comp[i]))
    /\ comp' = [comp EXCEPT ![i].phase = "unmounted",
                            ![i].removeCalls = Append(@, UnmountListenerArg(comp[i]))]
    /\ dispatched' = <<>>
    /\ UNCHANGED <<variant, state, requests, microtasks>>
    /\ UNCHANGED pureVars

\* this.props.dispatch(action): the store reduces the action and the
\* connected components re-render.
Dispatch(a) ==
    /\ dispatched' = <<a>>
    /\ state' = reducer(state, a)
    /\ comp' = [j \in Inst |-> Connected(comp[j], state')]

\* _setToolboxVisible(visible)
_setToolboxVisible(visible) == Dispatch(setToolboxVisible(visible))

\* _onClick(): the argument it hands to _setToolboxVisible.
ClickArg_SameValue(p) == p._toolboxVisible

ClickArg(p) == JsNot(p._toolboxVisible)

\* A tap on the video surface the instance has on screen.
_onClick(i) ==
    /\ TaskMayRun
    /\ comp[i].phase = "mounted"
    /\ LET shown == Shown(render(comp[i].props))
       IN  \E k \in DOMAIN shown : /\ IsSurfaceType(shown[k][1])
                                    /\ OnClickProp \in shown[k][2]
    /\ _setToolboxVisible(ClickArg(comp[i].props))
    /\ UNCHANGED <<variant, registry, requests, microtasks>>
    /\ UNCHANGED pureVars

\* _onHardwareBackPress(): the promise p.  With picture-in-picture enabled
\* it is the pending promise of PictureInPicture.enterPictureInPicture(),
\* otherwise Promise.reject(new Error('PiP not enabled')).
PromiseFor_AlwaysEnters(i, p) ==
    [ inst |-> i, pip |-> Truthy(p._pictureInPictureEnabled),
      enterCalls |-> 1, status |-> "pending",
      catchHandlers |-> 0, navigated |-> 0, returned |-> Undefined ]

PromiseFor(i, p) ==
    [ inst          |-> i,
      pip           |-> Truthy(p._pictureInPictureEnabled),
      enterCalls    |-> IF Truthy(p._pictureInPictureEnabled) THEN 1 ELSE 0,
      status        |-> IF Truthy(p._pictureInPictureEnabled)
                        THEN "pending" ELSE "rejected",
      catchHandlers |-> 0,    \* rejection handlers attached with p.catch
      navigated     |-> 0,    \* appNavigate dispatches made for this press
      returned      |-> Undefined ]

\* _onHardwareBackPress(): its return value.
BackPressReturn_PipFlag(p) == p._pictureInPictureEnabled

BackPressReturn(p) == JsTrue

\* The registry calls the listener of a hardware back press.
_onHardwareBackPress(i) ==
    /\ TaskMayRun
    /\ Len(requests) < MaxBackPresses
    /\ comp[i].phase # "none"
    /\ comp[i].onHardwareBackPress \in registry
    /\ LET p == PromiseFor(i, comp[i].props)
           k == Len(requests) + 1
       IN  /\ requests' = Append(requests,
                  [p EXCEPT !.catchHandlers = @ + 1,
                            !.returned = BackPressReturn(comp[i].props)])
           \* p.catch on a promise already rejected queues its reaction
           /\ microtasks' = IF p.status = "rejected"
                            THEN Append(microtasks, k) ELSE microtasks
    /\ dispatched' = <<>>
    /\ UNCHANGED <<variant, state, comp, registry>>
    /\ UNCHANGED pureVars

\* The native module settles the promise of enterPictureInPicture.
PictureInPictureResolves(k) ==
    /\ TaskMayRun
    /\ requests[k].status = "pending"
    /\ requests' = [requests EXCEPT ![k].status = "fulfilled"]
    /\ dispatched' = <<>>
    /\ UNCHANGED <<variant, state, comp, registry, microtasks>>
    /\ UNCHANGED pureVars

PictureInPictureRejects(k) ==
    /\ TaskMayRun
    /\ requests[k].status = "pending"
    /\ requests' = [requests EXCEPT ![k].status = "rejected"]
    /\ microtasks' = IF requests[k].catchHandlers > 0
                     THEN Append(microtasks, k) ELSE microtasks
    /\ dispatched' = <<>>
    /\ UNCHANGED <<variant, state, comp, registry>>
    /\ UNCHANGED pureVars

\* The rejection handler: this.props.dispatch(appNavigate(undefined)).
CatchHandlerDispatches_CancelledByUnmount(c) ==
    IF c.phase = "unmounted" THEN <<>> ELSE <<appNavigate(Undefined)>>

CatchHandlerDispatches(c) == <<appNavigate(Undefined)>>

\* The reaction job of p.catch(...) runs.
RunCatchReaction ==
    /\ microtasks # <<>>
    /\ LET k    == Head(microtasks)
           acts == CatchHandlerDispatches(comp[requests[k].inst])
       IN  /\ requests' = [requests EXCEPT ![k].navigated = @ + Len(acts)]
           /\ dispatched' = acts
           /\ state' = IF acts = <<>> THEN state ELSE reducer(state, acts[1])
           /\ comp' = [j \in Inst |->
                  Connected(comp[j],
                      IF acts = <<>> THEN state ELSE reducer(state, acts[1]))]
    /\ microtasks' = Tail(microtasks)
    /\ UNCHANGED <<variant, registry>>
    /\ UNCHANGED pureVars

\* Another feature updates the picture-in-picture flag in the store.
UpdateFlags ==
    /\ TaskMayRun
    /\ state' = [state EXCEPT !.pipEnabled = JsNot(@)]
    /\ comp' = [j \in Inst |->
           Connected(comp[j], [state EXCEPT !.pipEnabled = JsNot(@)])]
    /\ dispatched' = <<>>
    /\ UNCHANGED <<variant, registry, requests, microtasks>>
    /\ UNCHANGED pureVars

\* The store while a conference is running, with the toolbox hidden: one
\* layout per video surface an instance can have on screen (the LargeVideo
\* of the reduced UI, the TileView, the LargeVideo, and the white
\* LargeVideo of a conference named 'toolbox_disabled').
InCallStoreStates ==
    { s \in StoreStates :
        /\ s.connecting = Undefined
        /\ s.connection = Obj("connection")
        /\ s.conference = Str("room1")
        /\ s.joining = Undefined
        /\ s.membersOnly = Undefined
        /\ s.leaving = JsFalse
        /\ s.aspectRatio = Str("narrow")
        /\ s.filmstripVisible = JsTrue
        /\ s.toolboxVisible = JsFalse
        /\ s.conferenceName \in {Str("room1"), Str("toolbox_disabled")}
        /\ Truthy(s.reducedUI) => s.conferenceName = Str("room1")
        /\ (Truthy(s.reducedUI) \/ s.conferenceName = Str("toolbox_disabled"))
               => ~Truthy(s.tileView) }

Init ==
    /\ variant = "Conference.js"
    /\ state \in InCallStoreStates
    /\ props = NoProps
    /\ rendered = NotRendered
    /\ pc = "store"
    /\ comp = [i \in Inst |-> NoComponent]
    /\ registry = {}
    /\ requests = <<>>
    /\ microtasks = <<>>
    /\ dispatched = <<>>

Next ==
    \/ \E i \in Inst : constructor(i)
    \/ \E i \in Inst : componentDidMount(i)
    \/ \E i \in Inst : componentWillUnmount(i)
    \/ \E i \in Inst : _onClick(i)
    \/ \E i \in Inst : _onHardwareBackPress(i)
    \/ \E k \in DOMAIN requests : PictureInPictureResolves(k)
    \/ \E k \in DOMAIN requests : PictureInPictureRejects(k)
    \/ RunCatchReaction
    \/ UpdateFlags

Spec == Init /\ [][Next]_vars

-----------------------------------------------------------------------------
(* SpecPure: every store state, projected and rendered.                    *)

IdleLife ==
    /\ comp = [i \in Inst |-> NoComponent]
    /\ registry = {}
    /\ requests = <<>>
    /\ microtasks = <<>>
    /\ dispatched = <<>>

InitPure ==
    /\ variant \in Variants
    /\ state \in StoreStates
    /\ props = NoProps
    /\ rendered = NotRendered
    /\ pc = "store"
    /\ IdleLife

\* react-redux calls _mapStateToProps with the store state.
MapStateToProps ==
    /\ pc = "store"
    /\ props' = mapStateToPropsOf(variant, state)
    /\ pc' = "mapped"
    /\ UNCHANGED <<variant, state, rendered>>
    /\ UNCHANGED lifeVars

\* render(): the Container around the result of _renderContent.
Render ==
    /\ pc = "mapped"
    /\ rendered' = renderOf(variant, props)
    /\ pc' = "rendered"
    /\ UNCHANGED <<variant, state, props>>
    /\ UNCHANGED lifeVars

NextPure == MapStateToProps \/ Render

SpecPure == InitPure /\ [][NextPure]_vars

-----------------------------------------------------------------------------
(* SpecSetup: the store during call setup.  The session collaborator       *)
(* changes the connection and conference slices one step at a time; after  *)
(* every change react-redux projects the new state and the component       *)
(* renders again.                                                          *)

Falsy(values) == {x \in values : ~Truthy(x)}
TruthyOf(values) == {x \in values : Truthy(x)}

\* The store while the transport connection is being established: no
\* connection yet, no room join, no conference, no leave, no lobby.
TransportConnectingStates ==
    { s \in StoreStates :
        /\ Truthy(s.connecting)
        /\ ~Truthy(s.connection)
        /\ ~Truthy(s.joining)
        /\ ~Truthy(s.conference)
        /\ ~Truthy(s.leaving)
        /\ ~Truthy(s.membersOnly) }

\* connect(): the props and the content of the component for a store state.
Reprojected(s) ==
    /\ state' = s
    /\ props' = mapStateToPropsOf(variant, s)
    /\ rendered' = renderOf(variant, mapStateToPropsOf(variant, s))

InitSetup ==
    /\ variant \in Variants
    /\ state \in TransportConnectingStates
    /\ props = mapStateToPropsOf(variant, state)
    /\ rendered = renderOf(variant, props)
    /\ pc = "transportConnecting"
    /\ IdleLife

\* The transport connected: connecting is cleared and connection is set.
ConnectionEstablished ==
    /\ pc = "transportConnecting"
    /\ \E c \in Falsy(ConnectingValues), n \in TruthyOf(ConnectionValues) :
           Reprojected([state EXCEPT !.connecting = c, !.connection = n])
    /\ pc' = "transportConnected"
    /\ UNCHANGED variant
    /\ UNCHANGED lifeVars

\* The room join started: joining is set.
ConferenceWillJoin ==
    /\ pc = "transportConnected"
    /\ \E j \in TruthyOf(JoiningValues) :
           Reprojected([state EXCEPT !.joining = j])
    /\ pc' = "joining"
    /\ UNCHANGED variant
    /\ UNCHANGED lifeVars

\* The conference was joined: conference is set and joining is cleared.
ConferenceJoined ==
    /\ pc = "joining"
    /\ \E c \in TruthyOf(ConferenceValues), j \in Falsy(JoiningValues) :
           Reprojected([state EXCEPT !.conference = c, !.joining = j])
    /\ pc' = "joined"
    /\ UNCHANGED variant
    /\ UNCHANGED lifeVars

NextSetup ==
    \/ ConnectionEstablished
    \/ ConferenceWillJoin
    \/ ConferenceJoined

SpecSetup == InitSetup /\ [][NextSetup]_vars

-----------------------------------------------------------------------------
(* Properties of the projection (SpecPure).                                *)

Projected == pc \in {"mapped", "rendered"}
InConferenceJs == variant = "Conference.js"

\* The boolean formula of the state projection, over the truth values of
\* the slices.
ConnectingFormula(s) ==
    \/ Truthy(s.connecting)
    \/ /\ Truthy(s.connection)
       /\ \/ Truthy(s.joining)
          \/ (~Truthy(s.conference) /\ ~Truthy(s.leaving))

\* The same with the lobby gate of Conference.js.
ConnectingFormulaGated(s) ==
    \/ Truthy(s.connecting)
    \/ /\ Truthy(s.connection)
       /\ ~Truthy(s.membersOnly)
       /\ \/ Truthy(s.joining)
          \/ (~Truthy(s.conference) /\ ~Truthy(s.leaving))

\* The two scenarios of the claim: {connecting:false, connected:true,
\* joining:true, conference:null, leaving:false} and {connecting:false,
\* connected:true, joining:false, conference:"room1", leaving:false}.
ScenarioJoining(s) ==
    /\ s.connecting = JsFalse /\ Truthy(s.connection) /\ s.joining = JsTrue
    /\ s.conference = Null /\ s.leaving = JsFalse
ScenarioJoined(s) ==
    /\ s.connecting = JsFalse /\ Truthy(s.connection) /\ ~Truthy(s.joining)
    /\ s.conference = Str("room1") /\ s.leaving = JsFalse

\* C1 as stated: in both variants and for every store state, _connecting
\* is connecting OR (connection AND (joining OR (no conference AND NOT
\* leaving))), whatever the other slices (membersOnly among them) hold.
C1_AsStated ==
    Projected => (props._connecting = JsTrue <=> ConnectingFormula(state))

\* C1 amended: _connecting is a strict boolean; in part_000 it equals the
\* formula for every store state; in Conference.js it equals connecting OR
\* (connection AND NOT membersOnly AND (joining OR (no conference AND NOT
\* leaving))), which is the formula whenever membersOnly is falsy.  The
\* two scenarios derive true and false (with membersOnly not set).
C1_ConnectingMatchesFormula ==
    Projected =>
        /\ props._connecting \in JsBooleans
        /\ ~InConferenceJs =>
               (props._connecting = JsTrue <=> ConnectingFormula(state))
        /\ InConferenceJs =>
               (props._connecting = JsTrue <=> ConnectingFormulaGated(state))
        /\ ~Truthy(state.membersOnly) =>
               /\ props._connecting = JsTrue <=> ConnectingFormula(state)
               /\ ScenarioJoining(state) => props._connecting = JsTrue
               /\ ScenarioJoined(state) => props._connecting = JsFalse

\* C1 witness: Conference.js projected the joining scenario while
\* membersOnly was set, and derived false where the ungated formula is true.
C1_Witness ==
    /\ Projected /\ InConferenceJs
    /\ ScenarioJoining(state) /\ Truthy(state.membersOnly)
    /\ ConnectingFormula(state)
    /\ props._connecting = JsFalse

\* C10 as stated: in Conference.js, whenever membersOnly is true the
\* derived _connecting is false, for every combination of the other slices.
C10_AsStated ==
    (Projected /\ InConferenceJs /\ Truthy(state.membersOnly))
        => props._connecting = JsFalse

\* C10 amended: in Conference.js, whenever membersOnly is true the derived
\* _connecting equals the transport's connecting flag: it is false for
\* every combination of connection, joining, conference and leaving as
\* long as the transport is not connecting, and true while it is.
C10_LobbySuppressesUnlessTransportConnecting ==
    (Projected /\ InConferenceJs /\ Truthy(state.membersOnly))
        => (props._connecting = JsTrue <=> Truthy(state.connecting))

\* C10 witness: waiting in the lobby with the transport connected and no
\* conference yet: the indicator is suppressed.
C10_Witness ==
    /\ Projected /\ InConferenceJs
    /\ Truthy(state.membersOnly) /\ ~Truthy(state.connecting)
    /\ Truthy(state.connection) /\ ~Truthy(state.joining)
    /\ ~Truthy(state.conference) /\ ~Truthy(state.leaving)
    /\ props._connecting = JsFalse

-----------------------------------------------------------------------------
(* Properties of the projection during call setup (SpecSetup).             *)

SetupStages == {"transportConnecting", "transportConnected", "joining", "joined"}

\* The store state of each stage of the sequence.
StageShape ==
    /\ ~Truthy(state.membersOnly) /\ ~Truthy(state.leaving)
    /\ pc = "transportConnecting" =>
           /\ Truthy(state.connecting) /\ ~Truthy(state.connection)
           /\ ~Truthy(state.joining) /\ ~Truthy(state.conference)
    /\ pc = "transportConnected" =>
           /\ ~Truthy(state.connecting) /\ Truthy(state.connection)
           /\ ~Truthy(state.joining) /\ ~Truthy(state.conference)
    /\ pc = "joining" =>
           /\ ~Truthy(state.connecting) /\ Truthy(state.connection)
           /\ Truthy(state.joining) /\ ~Truthy(state.conference)
    /\ pc = "joined" =>
           /\ ~Truthy(state.connecting) /\ Truthy(state.connection)
           /\ ~Truthy(state.joining) /\ Truthy(state.conference)

\* C12: along transport connecting -> transport connected -> room join in
\* progress -> conference joined, in both variants, the derived _connecting
\* is true in every state before the conference is joined (the window
\* between transport connect and join start included) and false once it is
\* joined; once it is false it does not become true again.
C12_NoFlickerDuringSetup ==
    /\ [](pc \in SetupStages =>
             /\ StageShape
             /\ props = mapStateToPropsOf(variant, state)
             /\ pc # "joined" => props._connecting = JsTrue
             /\ pc = "joined" => props._connecting = JsFalse)
    /\ [][ /\ props._connecting = JsFalse => props'._connecting = JsFalse
           /\ props'._connecting = JsFalse => pc' = "joined" ]_vars

\* C12 witness: Conference.js went through the whole sequence: the
\* conference is joined and the derived _connecting is false.
C12_Witness ==
    /\ pc = "joined" /\ InConferenceJs
    /\ Truthy(state.connection) /\ Truthy(state.conference)
    /\ ~Truthy(state.joining) /\ ~Truthy(state.connecting)
    /\ props._connecting = JsFalse

-----------------------------------------------------------------------------
(* Properties of the rendered content (SpecPure).                          *)

RenderDone   == pc = "rendered"
ReducedUi    == Truthy(props._reducedUI)
TileViewOn   == Truthy(props._shouldDisplayTileView)
ToolboxOn    == Truthy(props._toolboxEnabled)
ConnectingOn == Truthy(props._connecting)

IsSurface(e) == IsSurfaceType(e[1])
Surfaces(seq) == SelectSeq(seq, IsSurface)

PlainLargeVideo == <<"LargeVideo", {OnClickProp}>>
WhiteLargeVideo == <<"LargeVideo", {OnClickProp, <<"whiteback", "true">>}>>
DarkLargeVideo  == <<"LargeVideo", {OnClickProp, <<"whiteback", "false">>}>>
TileViewShown   == <<"TileView", {OnClickProp}>>
OverlayShown    == << <<"TintedView", {}>>, <<"LoadingIndicator", {}>> >>
LabelShown      == <<"DisplayNameLabel",
                     {<<"participantId", props._largeVideoParticipantId.v>>}>>
ContainerShown  == <<"Container", {<<"style", "styles.conference">>}>>
StatusBarShown  == <<"StatusBar", {<<"barStyle", "light-content">>,
                                   <<"hidden", "true">>,
                                   <<"translucent", "true">>}>>
SafeAreaShown   == <<"SafeAreaView",
                     {<<"pointerEvents", "box-none">>,
                      <<"style", "styles.toolboxAndFilmstripContainer">>}>>

\* What render() puts around the content: the Container and, in part_000,
\* the StatusBar.  ContentShown is what is on screen inside it.
FrameShown   == IF InConferenceJs THEN <<ContainerShown>>
                ELSE <<ContainerShown, StatusBarShown>>
ContentShown == SubSeq(Shown(rendered), Len(FrameShown) + 1, Len(Shown(rendered)))

\* C5: whenever _reducedUI is true, for every value of the other props, the
\* rendered content (what the Container of render() holds, after the
\* StatusBar of part_000) is the LargeVideo and, iff _connecting, the
\* tinted loading overlay after it; no Toolbox, Filmstrip, TileView or
\* DisplayNameLabel is rendered.
C5_ReducedUiShowsOnlyVideoAndOverlay ==
    (RenderDone /\ ReducedUi) =>
        /\ ~rendered.threw
        /\ Shown(rendered) = FrameShown \o ContentShown
        /\ ContentShown = IF ConnectingOn
                          THEN <<PlainLargeVideo>> \o OverlayShown
                          ELSE <<PlainLargeVideo>>
        /\ Has(Shown(rendered), "TintedView") <=> ConnectingOn
        /\ \A type \in {"Toolbox", "Filmstrip", "TileView", "DisplayNameLabel"} :
               ~Has(Shown(rendered), type)

\* C5 witness: Conference.js rendered the reduced UI while connecting, with
\* tile view on, the toolbox enabled and visible and the filmstrip visible,
\* and the overlay is on screen.
C5_Witness ==
    /\ RenderDone /\ InConferenceJs /\ ReducedUi /\ ConnectingOn
    /\ TileViewOn /\ ToolboxOn
    /\ Truthy(props._toolboxVisible) /\ Truthy(props._filmstripVisible)
    /\ Shown(rendered) = <<ContainerShown, PlainLargeVideo>> \o OverlayShown

\* C6: whenever tile view is active the Filmstrip is not rendered, for
\* every value of the toolbox-enabled, toolbox-visible, filmstrip-visible,
\* connecting and reduced-UI props.
C6_NoFilmstripInTileView ==
    (RenderDone /\ TileViewOn) => ~Has(Shown(rendered), "Filmstrip")

\* C6 witness: the full layout of Conference.js rendered the tiled grid
\* with the toolbox enabled and the filmstrip visible.
C6_Witness ==
    /\ RenderDone /\ InConferenceJs /\ ~ReducedUi /\ TileViewOn /\ ToolboxOn
    /\ Truthy(props._filmstripVisible)
    /\ Has(Shown(rendered), "TileView")
    /\ Has(Shown(rendered), "Toolbox")

\* C7 as stated, read where it is most favourable to the claim (the full
\* layout of Conference.js): the DisplayNameLabel for the large-video
\* participant is rendered whenever tile view is active, and it is
\* rendered exactly when tile view is active or the toolbox is enabled.
C7_AsStated ==
    (RenderDone /\ InConferenceJs /\ ~ReducedUi) =>
        /\ TileViewOn => Count(Shown(rendered), "DisplayNameLabel") = 1
        /\ Has(Shown(rendered), "DisplayNameLabel")
               <=> (TileViewOn \/ ToolboxOn)

\* C7 amended: the DisplayNameLabel is never rendered when tile view is
\* active (the || yields the boolean, which renders nothing) nor in the
\* reduced UI.  It is rendered only in the full layout with tile view off
\* and the toolbox enabled, at most once and for the large-video
\* participant; in Conference.js it is rendered in exactly that case, in
\* part_000 never.
C7_LabelOnlyOutsideTileView ==
    RenderDone =>
        /\ TileViewOn => ~Has(Shown(rendered), "DisplayNameLabel")
        /\ ReducedUi => ~Has(Shown(rendered), "DisplayNameLabel")
        /\ Has(Shown(rendered), "DisplayNameLabel") =>
               /\ ~ReducedUi /\ ~TileViewOn /\ ToolboxOn
               /\ Count(Shown(rendered), "DisplayNameLabel") = 1
               /\ \E i \in DOMAIN Shown(rendered) :
                      Shown(rendered)[i] = LabelShown
        /\ (InConferenceJs /\ ~ReducedUi) =>
               (Has(Shown(rendered), "DisplayNameLabel")
                    <=> (~TileViewOn /\ ToolboxOn))
        /\ ~InConferenceJs => ~Has(Shown(rendered), "DisplayNameLabel")

\* C7 witness: the full layout of Conference.js rendered with tile view
\* active and the toolbox enabled, and no DisplayNameLabel is on screen.
C7_Witness ==
    /\ RenderDone /\ InConferenceJs /\ ~ReducedUi /\ TileViewOn /\ ToolboxOn
    /\ Has(Shown(rendered), "TileView")
    /\ ~Has(Shown(rendered), "DisplayNameLabel")

\* C8 as stated, read on Conference.js: in the full layout exactly one
\* video surface is rendered: the TileView if tile view is active (for
\* every value of toolbox enabled), otherwise a LargeVideo, white-background
\* exactly when the toolbox feature is disabled.
C8_AsStated ==
    (RenderDone /\ InConferenceJs /\ ~ReducedUi) =>
        Surfaces(Shown(rendered)) =
            IF TileViewOn THEN <<TileViewShown>>
            ELSE IF ToolboxOn THEN <<DarkLargeVideo>>
            ELSE <<WhiteLargeVideo>>

\* C8 amended: in the full layout of Conference.js exactly one video
\* surface is rendered: the white-background LargeVideo whenever the
\* toolbox feature is disabled (also when tile view is active); with the
\* toolbox enabled, the TileView if tile view is active and else the
\* LargeVideo with whiteback false.  In either variant at most one surface
\* is rendered and the TileView only with tile view active; the full
\* layout of part_000 renders no surface (its _renderContent throws).
C8_SurfaceSelection ==
    (RenderDone /\ ~ReducedUi) =>
        /\ InConferenceJs =>
               /\ ~rendered.threw
               /\ Surfaces(Shown(rendered)) =
                      IF ~ToolboxOn THEN <<WhiteLargeVideo>>
                      ELSE IF TileViewOn THEN <<TileViewShown>>
                      ELSE <<DarkLargeVideo>>
        /\ ~InConferenceJs =>
               /\ rendered.threw
               /\ Surfaces(Shown(rendered)) = <<>>
        /\ Len(Surfaces(Shown(rendered))) <= 1
        /\ Has(Shown(rendered), "TileView") => TileViewOn

\* C8 witness: the full layout of Conference.js rendered with tile view
\* active and the toolbox disabled: the surface is the white LargeVideo.
C8_Witness ==
    /\ RenderDone /\ InConferenceJs /\ ~ReducedUi /\ TileViewOn /\ ~ToolboxOn
    /\ Surfaces(Shown(rendered)) = <<WhiteLargeVideo>>

\* C11: the tinted loading overlay (a TintedView holding the
\* LoadingIndicator) is rendered exactly when _connecting is true and, in
\* the full layout, the toolbox feature is enabled as well; in the reduced
\* UI the toolbox-enabled flag plays no part.  It is never rendered when
\* _connecting is false, it is rendered at most once, and when rendered it
\* comes right after the video surface.
C11_OverlayExactlyWhenConnecting ==
    RenderDone =>
        LET shown == Shown(rendered)
        IN  /\ ReducedUi => (Has(shown, "TintedView") <=> ConnectingOn)
            /\ ~ReducedUi =>
                   (Has(shown, "TintedView") <=> (ConnectingOn /\ ToolboxOn))
            /\ ~ConnectingOn => ~Has(shown, "TintedView")
            /\ Count(shown, "TintedView") <= 1
            /\ Count(shown, "LoadingIndicator") = Count(shown, "TintedView")
            /\ Has(shown, "TintedView") =>
                   /\ shown = FrameShown \o ContentShown
                   /\ IsSurface(ContentShown[1])
                   /\ SubSeq(ContentShown, 2, 3) = OverlayShown

\* C11 witness: the full layout of Conference.js rendered while connecting
\* with the toolbox feature enabled, and exactly one overlay is on screen
\* above the video surface.
C11_Witness ==
    /\ RenderDone /\ InConferenceJs /\ ~ReducedUi /\ ConnectingOn /\ ToolboxOn
    /\ Count(Shown(rendered), "TintedView") = 1
    /\ SubSeq(ContentShown, 2, 3) = OverlayShown

\* C14: in Conference.js the _toolboxEnabled prop is a boolean that is
\* false exactly when the conference name is 'toolbox_disabled'.  With the
\* toolbox feature disabled the full layout renders no Toolbox, no
\* Filmstrip and no loading overlay, whatever _connecting, _toolboxVisible
\* and _filmstripVisible hold; with it enabled the full layout renders the
\* Toolbox (once), and the Filmstrip exactly when tile view is off,
\* whatever _toolboxVisible and _filmstripVisible hold.
C14_ToolboxDisabledByConferenceName ==
    (Projected /\ InConferenceJs) =>
        /\ props._toolboxEnabled \in JsBooleans
        /\ props._toolboxEnabled = JsFalse
               <=> getConferenceName(state) = Str("toolbox_disabled")
        /\ (RenderDone /\ ~ReducedUi) =>
               LET shown == Shown(rendered)
               IN  /\ ~ToolboxOn =>
                          /\ ~Has(shown, "Toolbox")
                          /\ ~Has(shown, "Filmstrip")
                          /\ ~Has(shown, "TintedView")
                          /\ ~Has(shown, "LoadingIndicator")
                   /\ ToolboxOn =>
                          /\ Count(shown, "Toolbox") = 1
                          /\ Has(shown, "Filmstrip") <=> ~TileViewOn
                          /\ Count(shown, "Filmstrip") <= 1

\* C14 witness: the full layout of Conference.js rendered for the
\* conference named 'toolbox_disabled' while connecting, with the toolbox
\* and the filmstrip marked visible: only the white LargeVideo is on screen.
C14_Witness ==
    /\ RenderDone /\ InConferenceJs /\ ~ReducedUi
    /\ getConferenceName(state) = Str("toolbox_disabled")
    /\ props._toolboxEnabled = JsFalse
    /\ ConnectingOn
    /\ Truthy(props._toolboxVisible) /\ Truthy(props._filmstripVisible)
    /\ Shown(rendered) = <<ContainerShown, WhiteLargeVideo, SafeAreaShown>>

-----------------------------------------------------------------------------
(* Properties of the instance life (Spec).                                 *)

ReactionWaiting(k) == \E m \in DOMAIN microtasks : microtasks[m] = k

\* C2: _onHardwareBackPress returned true on every invocation: with
\* picture-in-picture enabled or disabled, and with the request pending,
\* fulfilled or rejected.
C2_BackPressAlwaysHandled ==
    \A k \in DOMAIN requests : requests[k].returned = JsTrue

\* C2 witness: two back presses were handled and returned true, one with
\* picture-in-picture disabled and one whose request is still pending.
C2_Witness ==
    \E k1, k2 \in DOMAIN requests :
        /\ ~requests[k1].pip /\ requests[k1].returned = JsTrue
        /\ requests[k2].pip /\ requests[k2].status = "pending"
        /\ requests[k2].returned = JsTrue

\* C3: for each instance the registry holds exactly one listener of the
\* instance while it is mounted and none before mount or after unmount;
\* componentDidMount made exactly one addListener call,
\* componentWillUnmount exactly one removeListener call, and both passed
\* the function bound once in the constructor.
C3_OneListenerWhileMounted ==
    \A i \in Inst :
        LET c    == comp[i]
            mine == {l \in registry : l.inst = i}
        IN  /\ c.phase = "mounted" => mine = {c.onHardwareBackPress}
            /\ c.phase # "mounted" => mine = {}
            /\ c.phase # "none" =>
                   c.onHardwareBackPress =
                       BoundFunction(i, "_onHardwareBackPress", 1)
            /\ c.addCalls = IF c.phase \in {"mounted", "unmounted"}
                            THEN <<c.onHardwareBackPress>> ELSE <<>>
            /\ c.removeCalls = IF c.phase = "unmounted"
                               THEN <<c.onHardwareBackPress>> ELSE <<>>

\* C3 witness: an instance was mounted, handled a back press and re-rendered
\* after a tap, and was unmounted; the registry is empty again.
C3_Witness ==
    \E i \in Inst :
        /\ comp[i].phase = "unmounted"
        /\ comp[i].addCalls = comp[i].removeCalls
        /\ Len(comp[i].removeCalls) = 1
        /\ comp[i].props._toolboxVisible = JsTrue
        /\ \E k \in DOMAIN requests : requests[k].inst = i
        /\ registry = {}

\* C4: each back press dispatched appNavigate(undefined) exactly once if
\* picture-in-picture was disabled or the request rejected (once its
\* rejection handler has run), and not at all while the request is pending
\* or once it resolved.  With picture-in-picture disabled
\* enterPictureInPicture was not called; it is never called more than once
\* per press, and every rejection has a handler.
C4_NavigateAwayExactlyOnFailure ==
    \A k \in DOMAIN requests :
        LET r == requests[k]
        IN  /\ r.navigated <= 1
            /\ r.status \in {"pending", "fulfilled"} => r.navigated = 0
            /\ (r.status = "rejected" /\ ~ReactionWaiting(k)) => r.navigated = 1
            /\ ~r.pip => (r.enterCalls = 0 /\ r.status = "rejected")
            /\ r.pip => r.enterCalls = 1
            /\ r.status = "rejected" => r.catchHandlers = 1

\* C4 witness: every reaction has run, and a press made with
\* picture-in-picture disabled and a press whose request rejected have
\* each navigated away exactly once.
C4_Witness ==
    /\ microtasks = <<>>
    /\ \E k1, k2 \in DOMAIN requests :
           /\ ~requests[k1].pip /\ requests[k1].navigated = 1
           /\ requests[k2].pip /\ requests[k2].status = "rejected"
           /\ requests[k2].navigated = 1

\* The requests whose rejection handler has run, and the navigate-away
\* dispatches made so far.
Failed == {k \in DOMAIN requests :
              requests[k].status = "rejected" /\ ~ReactionWaiting(k)}
RECURSIVE NavigationsUpTo(_)
NavigationsUpTo(n) ==
    IF n = 0 THEN 0 ELSE requests[n].navigated + NavigationsUpTo(n - 1)
Navigations == NavigationsUpTo(Len(requests))

Unmounted(i) ==
    /\ comp[i].phase = "unmounted"
    /\ comp[i].onHardwareBackPress \notin registry

\* C13: the failure continuation of a picture-in-picture request is not
\* cancelled by teardown: every request that rejected has dispatched
\* appNavigate(undefined) exactly once as soon as its rejection handler has
\* run, whether its component is mounted or was unmounted (and its listener
\* deregistered) in the meantime.  Every back press has its own promise
\* with its own handler, whose reaction is queued at most once, so N failed
\* requests have made N navigate-away dispatches; the action dispatched by
\* a handler is always appNavigate(undefined).
C13_ContinuationSurvivesUnmount ==
    /\ \A k \in DOMAIN requests :
           LET r == requests[k]
           IN  /\ r.catchHandlers = 1
               /\ Cardinality({m \in DOMAIN microtasks : microtasks[m] = k}) <= 1
               /\ ReactionWaiting(k) => (r.status = "rejected" /\ r.navigated = 0)
               /\ k \in Failed => r.navigated = 1
               /\ (k \in Failed /\ Unmounted(r.inst)) => r.navigated = 1
    /\ Navigations = Cardinality(Failed)
    /\ (\A i \in Inst : comp[i].phase # "mounted") =>
           dispatched \in {<<>>, <<appNavigate(Undefined)>>}

\* C13 witness: two back presses each started a picture-in-picture request
\* while the first was still pending, and the component was unmounted and
\* its listener deregistered before the last request rejected: the step
\* just taken is that request's handler dispatching appNavigate(undefined)
\* (unmounting clears the record of the last dispatch, and no task runs
\* between a rejection and its handler), and two navigate-away dispatches
\* have been made for the two failed requests.
C13_Witness ==
    /\ Len(requests) >= 2
    /\ \A k \in DOMAIN requests :
           /\ requests[k].pip /\ requests[k].enterCalls = 1
           /\ requests[k].status = "rejected"
           /\ requests[k].navigated = 1
           /\ Unmounted(requests[k].inst)
    /\ registry = {}
    /\ microtasks = <<>>
    /\ dispatched = <<appNavigate(Undefined)>>
    /\ Navigations = Len(requests)

\* C9: every tap dispatches exactly one action, setToolboxVisible with the
\* negation of the _toolboxVisible prop at the time of the tap; the store
\* applies it and the instance re-renders, so the visibility in the store
\* and in the props is negated by every tap.
C9_TapTogglesToolbox ==
    [][ \A i \in Inst :
            _onClick(i) =>
                /\ dispatched' =
                       <<setToolboxVisible(JsNot(comp[i].props._toolboxVisible))>>
                /\ state'.toolboxVisible = JsNot(state.toolboxVisible)
                /\ comp'[i].props._toolboxVisible =
                       JsNot(comp[i].props._toolboxVisible) ]_vars

\* C9 witness: the toolbox starts hidden, so a tap that dispatched
\* setToolboxVisible(false) is at least the second tap: two taps have
\* restored the original visibility.
C9_Witness ==
    /\ dispatched = <<setToolboxVisible(JsFalse)>>
    /\ state.toolboxVisible = JsFalse
    /\ \E i \in Inst : /\ comp[i].phase = "mounted"
                       /\ comp[i].props._toolboxVisible = JsFalse

====
